---------------------------- MODULE Spec2Model ----------------------------
(***************************************************************************)
(* Campus Utility Hub: conversation identity, get-or-create and message    *)
(* append, as implemented by the chat hub (js/chat-hub.js), the            *)
(* marketplace page and the lost-and-found page (js/lost-found.js).        *)
(*                                                                         *)
(* Identifiers and keys are sequences of one-character strings, so that    *)
(* the JavaScript operations on them (Array.prototype.sort, join, template *)
(* literals, startsWith) are modelled by what they do to the characters.   *)
(***************************************************************************)
EXTENDS Integers, Sequences, FiniteSets, TLC

(***************************************************************************)
(* Bounds                                                                  *)
(***************************************************************************)
MaxIdLen == 2
MaxTasks == 2
MaxSends == 2
MaxStamp == 1
MaxOpens == 2
MaxRenders == 2
MaxInboxSubs == 2
MaxCallbacks == 2
MaxProfileEdits == 1
MaxSubmits == 3
MaxAdminActs == 2
MaxAuthActs == 3
MaxRoutes == 3

(***************************************************************************)
(* Characters and identifiers                                              *)
(***************************************************************************)
\* Characters the identity service and the store use in generated
\* identifiers (auth uids and auto-generated document ids are alphanumeric).
IdChars == {"F", "L"}

Sep == "_"

\* UTF-16 code unit of a character, the order String comparison uses.
Code(c) ==
    CASE c = "F" -> 70
      [] c = "L" -> 76
      [] c = "_" -> 95
      [] c = "a" -> 97
      [] c = "b" -> 98
      [] c = "c" -> 99
      [] c = "i" -> 105
      [] c = "j" -> 106

SeqsUpTo(S, n) == UNION {[1..k -> S] : k \in 1..n}

\* Identifiers handed out by the external services: non-empty, and longer
\* than the two letters of the lost-and-found prefix (uids have 28
\* characters, document ids 20), so no identifier is the string "LF".
IdSet == SeqsUpTo(IdChars, MaxIdLen) \ {<<"L", "F">>}

(***************************************************************************)
(* String operations                                                       *)
(***************************************************************************)
RECURSIVE LexLess(_, _)
\* s < t as JavaScript compares strings (code unit by code unit, a proper
\* prefix is smaller).
LexLess(s, t) ==
    IF t = <<>> THEN FALSE
    ELSE IF s = <<>> THEN TRUE
    ELSE IF Code(Head(s)) < Code(Head(t)) THEN TRUE
    ELSE IF Code(Head(s)) > Code(Head(t)) THEN FALSE
    ELSE LexLess(Tail(s), Tail(t))

\* [x, y].sort() with the default comparator.
Sort2(x, y) == IF LexLess(y, x) THEN <<y, x>> ELSE <<x, y>>

RECURSIVE Join(_)
\* parts.join('_')
Join(parts) ==
    IF parts = <<>> THEN <<>>
    ELSE IF Len(parts) = 1 THEN parts[1]
    ELSE parts[1] \o <<Sep>> \o Join(Tail(parts))

\* key.startsWith("LF_")
StartsWithLF(key) ==
    /\ Len(key) >= 3
    /\ SubSeq(key, 1, 3) = <<"L", "F", "_">>

(***************************************************************************)
(* Conversation key derivation                                             *)
(***************************************************************************)
GeneralKeyUnsorted(me, target) == Join(<<me, target>>)

\* initiateChat: [auth.currentUser.uid, targetUid].sort().join('_')
GeneralKey(me, target) == Join(Sort2(me, target))

MarketKeyNoItem(item, buyer, seller) == buyer \o <<Sep>> \o seller

\* openChat (marketplace): `${itemId}_${buyerId}_${sellerId}`
MarketKey(item, buyer, seller) ==
    item \o <<Sep>> \o buyer \o <<Sep>> \o seller

LFKeyNoPrefix(item, me, reporter) ==
    item \o <<Sep>> \o me \o <<Sep>> \o reporter

\* contactReporter: `LF_${itemId}_${auth.currentUser.uid}_${reporterId}`
LFKey(item, me, reporter) ==
    <<"L", "F", Sep>> \o item \o <<Sep>> \o me \o <<Sep>> \o reporter

(***************************************************************************)
(* State                                                                   *)
(***************************************************************************)
\* Key derivation on its own: the first derivation and, for a general DM,
\* the one the counterpart makes in the other direction.
VARIABLES kFirst, kBack

keyVars == <<kFirst, kBack>>

VARIABLES
    chats,      \* the chats collection: a set of documents
    now,        \* server clock: the time of the latest applied write
    task,       \* contact attempts (async invocations of the entry points)
    outbox,     \* message updates issued by sendMessage
    pending,    \* writes issued and not yet applied, in the order of issue
    active,     \* activeChatId / currentActiveChatId per user and page
    listener,   \* chatListener / currentChatListener per user and page
    attached,   \* message subscriptions attached to the store, per page
    shown,      \* hub search: the suggestions on display per user
    selfDropped,  \* history: a search left the viewer's own profile out
    storeOps,   \* history: reads and writes of chats issued per attempt
    sentLog,    \* history: message updates the store applied, per key
    submitted,  \* history: messages in the order sendMessage issued them
    creates     \* history: number of create writes applied, per key

chatVars == <<chats, now, task, outbox, pending, active, listener, attached,
              shown,
              selfDropped, storeOps, sentLog, submitted, creates>>

VARIABLES
    opens,      \* number of inbox entries clicked so far
    inbox,      \* inbox-container: the cards rendered, per user and page
    badge,      \* msg-count: the unread text shown, per user and page
    renders     \* number of inbox snapshots delivered so far

pageVars == <<opens, inbox, badge, renders>>

VARIABLES
    authSeen,    \* hub: the onAuthStateChanged handler has run
    currentTab,  \* hub: currentTab
    inboxSubs,   \* hub: inbox subscriptions attached to the chats query
    hubList,     \* hub: conversation-list, the cards rendered
    hubMessages, \* hub: chat-hub-messages, the bubbles rendered
    userCache,   \* hub: userCache
    cb,          \* hub: snapshot callbacks suspended at an await
    profile      \* users collection: the saved version of each profile

hubVars == <<authSeen, currentTab, inboxSubs, hubList, hubMessages,
             userCache, cb, profile>>

VARIABLES
    form,        \* the submit handler running on each page, if any
    btnDisabled, \* submitBtn.disabled, per page
    formStatus,  \* the status line under the form, per page
    items,       \* marketplace_items and lost_found_items: the records
    requests,    \* per submission: uploads and store writes issued
    outcome,     \* per submission: how its handler ended
    timers,      \* pending success timers, per page
    submits      \* number of submit events so far

formVars == <<form, btnDisabled, formStatus, items, requests, outcome,
              timers, submits>>

VARIABLES
    userDocs,    \* the users collection: a record per uid, or None
    adminReq,    \* privileged writes in flight
    adminMsg,    \* the message line of the announcement and menu forms
    adminLog,    \* history: the rejections and what was shown for each
    posts,       \* announcements and menus: the records written
    adminWrites, \* history: write requests issued, per submit
    adminActs    \* number of submits of the two forms so far

adminVars == <<userDocs, adminReq, adminMsg, adminLog, posts, adminWrites,
               adminActs>>

VARIABLES
    accounts,    \* the identity service: the uids that have an account
    authReq,     \* sign-up and login handlers waiting for an answer
    authMsg,     \* signup-message and login-message
    authIn,      \* history: what each submit was given
    authEnd,     \* history: how each submit ended and what it showed
    authCalls,   \* history: calls to the identity service, per submit
    docWrites,   \* history: users records written, per submit
    redirects,   \* the submits that scheduled the jump to the dashboard
    authActs     \* number of submits of the two forms so far

authVars == <<accounts, authReq, authMsg, authIn, authEnd, authCalls,
              docWrites, redirects, authActs>>

VARIABLES
    itemStatus,  \* marketplace_items: the status field of each item
    gallery      \* the button on each card of a user's rendered gallery

itemVars == <<itemStatus, gallery>>

VARIABLES
    mapLayers,         \* the route layers and markers that are on the map
    routingLayer,      \* let routingLayer: the layer last recorded
    destinationMarker, \* let destinationMarker: the marker last recorded
    route,             \* the startRouting calls: where each one stands
    routePanel         \* whether the route panel is displayed

mapVars == <<mapLayers, routingLayer, destinationMarker, route, routePanel>>

siteVars == <<adminVars, authVars, itemVars, mapVars>>

appVars == <<keyVars, chatVars, pageVars, hubVars, formVars>>

vars == <<appVars, siteVars>>

(***************************************************************************)
(* Key derivation on its own: the guards and the key construction of the   *)
(* three entry points, applied to identifiers drawn from IdSet.            *)
(***************************************************************************)
NoItem == <<>>

NoDeriv == [op |-> "none", me |-> <<>>, target |-> <<>>, item |-> NoItem,
            key |-> <<>>]

SelfReporterIgnored(me, reporter) == FALSE

\* contactReporter: if (reporterId === auth.currentUser.uid) return;
SelfReporter(me, reporter) == reporter = me

\* openChat: if (!sellerId || sellerId === auth.currentUser.uid) return;
SelfSeller(me, seller) == seller = <<>> \/ seller = me

SuggestionsWithSelf(me, matches) == matches

\* search handler: a matching profile is listed unless doc.id is the
\* signed-in user's uid
Suggestions(me, matches) == {u \in matches : u # me}

\* The key an entry point constructs for its arguments.
KeyOf(op, me, target, item) ==
    CASE op = "initiateChat" -> GeneralKey(me, target)
      [] op = "openChat" -> MarketKey(item, me, target)
      [] op = "contactReporter" -> LFKey(item, me, target)

Derivation(op, me, target, item) ==
    [op |-> op, me |-> me, target |-> target, item |-> item,
     key |-> KeyOf(op, me, target, item)]

\* A suggestion of the search list is clicked: initiateChat(target).
KeyInitiateChat ==
    /\ kFirst = NoDeriv
    /\ \E me \in IdSet : \E target \in Suggestions(me, IdSet) :
          kFirst' = Derivation("initiateChat", me, target, NoItem)
    /\ UNCHANGED <<kBack, chatVars, pageVars, hubVars, formVars, siteVars>>

\* The suggested user, in turn, clicks the first user in their own list.
KeyInitiateBack ==
    /\ kFirst.op = "initiateChat"
    /\ kBack = NoDeriv
    /\ kFirst.me \in Suggestions(kFirst.target, IdSet)
    /\ kBack' = Derivation("initiateChat", kFirst.target, kFirst.me, NoItem)
    /\ UNCHANGED <<kFirst, chatVars, pageVars, hubVars, formVars, siteVars>>

\* Marketplace openChat(sellerId, sellerEmail, itemId) up to the key.
KeyOpenChat ==
    /\ kFirst = NoDeriv
    /\ \E me \in IdSet, seller \in IdSet, item \in IdSet :
          /\ ~SelfSeller(me, seller)
          /\ kFirst' = Derivation("openChat", me, seller, item)
    /\ UNCHANGED <<kBack, chatVars, pageVars, hubVars, formVars, siteVars>>

\* contactReporter(reporterId, reporterEmail, itemId) up to the key.
KeyContactReporter ==
    /\ kFirst = NoDeriv
    /\ \E me \in IdSet, reporter \in IdSet, item \in IdSet :
          /\ ~SelfReporter(me, reporter)
          /\ kFirst' = Derivation("contactReporter", me, reporter, item)
    /\ UNCHANGED <<kBack, chatVars, pageVars, hubVars, formVars, siteVars>>

KeyInit == kFirst = NoDeriv /\ kBack = NoDeriv

KeyNext ==
    \/ KeyInitiateChat
    \/ KeyInitiateBack
    \/ KeyOpenChat
    \/ KeyContactReporter

(***************************************************************************)
(* The chats collection and the three pages that use it                    *)
(***************************************************************************)
\* Signed-up accounts (every one has a users record) and posted items.
Users == {<<"a">>, <<"b">>}
Items == {<<"i">>, <<"j">>}

Ops == {"initiateChat", "openChat", "contactReporter"}

\* The page an entry point belongs to; each page keeps its own active
\* conversation and message subscription.
PageOf(op) ==
    CASE op = "initiateChat" -> "hub"
      [] op = "openChat" -> "market"
      [] op = "contactReporter" -> "lf"

Pages == {"hub", "market", "lf"}

Texts == {"hi", "yo"}
Stamps == 1..MaxStamp

\* auth.currentUser.email, users/<uid>.email, item.sellerEmail and
\* item.reportedBy all hold the e-mail address the account signed up with.
EmailOf(u) == <<"mail", u>>

None == <<>>

TaskIds == 1..MaxTasks
SendIds == 1..MaxSends

IdleTask == [op |-> "none", me |-> <<>>, target |-> <<>>, item |-> NoItem,
             key |-> None, pc |-> "idle"]

IdleSend == [pc |-> "idle", page |-> "none", key |-> None, msg |-> <<>>]
DoneSend == [pc |-> "done", page |-> "none", key |-> None, msg |-> <<>>]

\* Every key the entry points can construct for Users and Items.
AllKeys ==
    {GeneralKey(u, v) : u \in Users, v \in Users}
    \cup {MarketKey(i, u, v) : i \in Items, u \in Users, v \in Users}
    \cup {LFKey(i, u, v) : i \in Items, u \in Users, v \in Users}

Exists(key) == \E d \in chats : d.id = key

DocOf(key) == CHOOSE d \in chats : d.id = key

SetDocKeepingOld(docs, doc) == docs \cup {doc}

\* chatRef.set(data): the document with that id is replaced as a whole.
SetDoc(docs, doc) == {d \in docs : d.id # doc.id} \cup {doc}

\* FieldValue.arrayUnion(e): e is added unless the array already holds an
\* equal element.
ArrayUnion(arr, e) ==
    IF \E n \in 1..Len(arr) : arr[n] = e THEN arr ELSE Append(arr, e)

AlwaysCreate(docExists) == TRUE

\* if (!doc.exists) { await chatRef.set(...) }
ShouldCreate(docExists) == ~docExists

\* The document the entry point writes on first contact.
NewDocContactsSwapped(t, time) ==
    [id |-> t.key,
     itemId |-> t.item,
     participants |-> <<t.me, t.target>>,
     participantEmails |-> <<EmailOf(t.target), EmailOf(t.me)>>,
     messages |-> <<>>,
     lastUpdated |-> time]

NewDoc(t, time) ==
    [id |-> t.key,
     itemId |-> t.item,
     participants |-> <<t.me, t.target>>,
     participantEmails |-> <<EmailOf(t.me), EmailOf(t.target)>>,
     messages |-> <<>>,
     lastUpdated |-> time]

\* The page session (client) that issued a write.
ClientOf(w) ==
    IF w.kind = "set"
    THEN <<task[w.n].me, PageOf(task[w.n].op)>>
    ELSE <<outbox[w.n].msg.senderId, outbox[w.n].page>>

\* The client SDK sends the writes of one page session in the order they
\* were issued: a write reaches the store when no earlier write of the same
\* session is still pending.
IsNextOf(w) ==
    \E i \in 1..Len(pending) :
        /\ pending[i] = w
        /\ \A j \in 1..(i - 1) : ClientOf(pending[j]) # ClientOf(w)

Issue(w) == Append(pending, w)

Applied(w) == SelectSeq(pending, LAMBDA x : x # w)

\* A person who has no account yet.
Newcomers == {<<"c">>}

People == Users \cup Newcomers

UserDoc(u, role) == [name |-> <<"name", u>>, email |-> EmailOf(u),
                     role |-> role]

\* The users records of the accounts that exist at the start: both were
\* written by sign-up, and one was then made admin in the console.
SeededDoc(u) ==
    IF u = <<"a">> THEN UserDoc(u, "student")
    ELSE IF u = <<"b">> THEN UserDoc(u, "admin")
    ELSE None

AuthForms == {"signup", "login"}

AuthActIds == 1..MaxAuthActs

RouteIds == 1..MaxRoutes

AdminForms == {"announce", "menu"}

AdminActIds == 1..MaxAdminActs

FormPages == {"market", "lf"}

SubmitIds == 1..MaxSubmits

IdleForm == [pc |-> "idle", sub |-> 0, body |-> "none", url |-> "none"]

IdleCb == [kind |-> "none", viewer |-> <<>>, rest |-> <<>>, pc |-> "idle"]

FreeTask(n) ==
    /\ task[n].pc = "idle"
    /\ \A m \in TaskIds : m < n => task[m].pc # "idle"

FreeSend(n) ==
    /\ outbox[n].pc = "idle"
    /\ \A m \in SendIds : m < n => outbox[m].pc # "idle"

RECURSIVE RemoveOne(_, _)
\* The sequence without the first occurrence of e.
RemoveOne(arr, e) ==
    IF arr = <<>> THEN <<>>
    ELSE IF Head(arr) = e THEN Tail(arr)
    ELSE <<Head(arr)>> \o RemoveOne(Tail(arr), e)

DetachNone(subs, handle) == subs

\* if (chatListener) chatListener(): the subscription whose unsubscribe
\* function the page holds is detached.
Detach(subs, handle) ==
    IF handle = None THEN subs ELSE RemoveOne(subs, handle)

\* chatListener = doc(chatId).onSnapshot(...)
Attach(subs, key) == Append(subs, key)

\* openChat / openChatSession + startChatListener: the page's active id is
\* set, the previous subscription is detached and a new one attached.
OpenViewKeepingListener(u, page, key) ==
    /\ active' = [active EXCEPT ![u][page] = key]
    /\ UNCHANGED <<listener, attached>>

OpenView(u, page, key) ==
    /\ active' = [active EXCEPT ![u][page] = key]
    /\ listener' = [listener EXCEPT ![u][page] = key]
    /\ attached' = [attached EXCEPT ![u][page] =
                       Attach(Detach(@, listener[u][page]), key)]

\* Hub search box: the input handler lists the matching profiles.
SearchInput(me, matches) ==
    /\ \E n \in TaskIds : FreeTask(n)
    /\ shown' = [shown EXCEPT ![me] = Suggestions(me, matches)]
    /\ selfDropped' = (selfDropped \/ me \in matches)
    /\ UNCHANGED <<keyVars, siteVars, hubVars, formVars, pageVars, pending,
                   submitted, chats, now, task, outbox, active, listener,
                   attached, storeOps, sentLog, creates>>

\* Start of an attempt: the key is built and chatRef.get() is issued.
StartAttempt(n, op, me, target, item) ==
    LET key == KeyOf(op, me, target, item) IN
    /\ task' = [task EXCEPT ![n] =
                   [op |-> op, me |-> me, target |-> target, item |-> item,
                    key |-> key, pc |-> "get"]]
    /\ storeOps' = storeOps \cup {[t |-> n, kind |-> "get", key |-> key]}

\* A suggestion is clicked: initiateChat(targetEmail, targetUid, targetName).
InitiateChat(n, me, target) ==
    /\ FreeTask(n)
    /\ target \in shown[me]
    /\ shown' = [shown EXCEPT ![me] = {}]
    /\ StartAttempt(n, "initiateChat", me, target, NoItem)
    /\ UNCHANGED <<keyVars, siteVars, hubVars, formVars, pageVars, pending,
                   submitted, chats, now, outbox, active, listener, attached,
                   selfDropped, sentLog, creates>>

\* An entry point up to its first await: a self contact returns at once,
\* any other builds the key and issues the read.
RejectOrStart(n, op, me, target, item, self) ==
    IF self
    THEN /\ task' = [task EXCEPT ![n] =
                       [op |-> op, me |-> me, target |-> target,
                        item |-> item, key |-> None, pc |-> "rejected"]]
         /\ UNCHANGED storeOps
    ELSE StartAttempt(n, op, me, target, item)

\* window.openChat(sellerId, sellerEmail, itemId) on the marketplace page.
OpenChat(n, me, seller, item) ==
    /\ FreeTask(n)
    /\ RejectOrStart(n, "openChat", me, seller, item, SelfSeller(me, seller))
    /\ UNCHANGED <<keyVars, siteVars, hubVars, formVars, pageVars, pending,
                   submitted, chats, now, outbox, active, listener, attached,
                   shown, selfDropped, sentLog, creates>>

\* window.contactReporter(reporterId, reporterEmail, itemId).
ContactReporter(n, me, reporter, item) ==
    /\ FreeTask(n)
    /\ RejectOrStart(n, "contactReporter", me, reporter, item,
                     SelfReporter(me, reporter))
    /\ UNCHANGED <<keyVars, siteVars, hubVars, formVars, pageVars, pending,
                   submitted, chats, now, outbox, active, listener, attached,
                   shown, selfDropped, sentLog, creates>>

\* chatRef.get() resolves: the record is created if absent, else the view
\* is opened on it.
GetReturn(n) ==
    /\ task[n].pc = "get"
    /\ IF ShouldCreate(Exists(task[n].key))
       THEN /\ task' = [task EXCEPT ![n].pc = "set"]
            /\ pending' = Issue([kind |-> "set", n |-> n])
            /\ storeOps' = storeOps \cup
                  {[t |-> n, kind |-> "set", key |-> task[n].key]}
            /\ UNCHANGED <<active, listener, attached>>
       ELSE /\ task' = [task EXCEPT ![n].pc = "done"]
            /\ OpenView(task[n].me, PageOf(task[n].op), task[n].key)
            /\ UNCHANGED <<pending, storeOps>>
    /\ UNCHANGED <<keyVars, siteVars, hubVars, formVars, pageVars, submitted,
                   chats, now, outbox, shown, selfDropped, sentLog, creates>>

\* The store applies the create write.
SetApply(n) ==
    /\ task[n].pc = "set"
    /\ IsNextOf([kind |-> "set", n |-> n])
    /\ pending' = Applied([kind |-> "set", n |-> n])
    /\ chats' = SetDoc(chats, NewDoc(task[n], now + 1))
    /\ now' = now + 1
    /\ creates' = [creates EXCEPT ![task[n].key] = @ + 1]
    /\ task' = [task EXCEPT ![n].pc = "ack"]
    /\ UNCHANGED <<keyVars, siteVars, hubVars, formVars, pageVars, submitted,
                   outbox, active, listener, attached, shown, selfDropped,
                   storeOps, sentLog>>

\* await chatRef.set(...) resolves: the view is opened.
SetReturn(n) ==
    /\ task[n].pc = "ack"
    /\ task' = [task EXCEPT ![n].pc = "done"]
    /\ OpenView(task[n].me, PageOf(task[n].op), task[n].key)
    /\ UNCHANGED <<keyVars, siteVars, hubVars, formVars, pageVars, pending,
                   submitted, chats, now, outbox, shown, selfDropped,
                   storeOps, sentLog, creates>>

\* sendMessage / sendMsgBtn.onclick: the update is issued for the page's
\* active conversation.
SendMessage(n, u, page, text, stamp) ==
    /\ FreeSend(n)
    /\ active[u][page] # None
    /\ outbox' = [outbox EXCEPT ![n] =
                     [pc |-> "update", page |-> page,
                      key |-> active[u][page],
                      msg |-> [senderId |-> u, text |-> text,
                               timestamp |-> stamp]]]
    /\ pending' = Issue([kind |-> "update", n |-> n])
    /\ submitted' = [submitted EXCEPT ![active[u][page]] =
                        Append(@, [senderId |-> u, text |-> text,
                                   timestamp |-> stamp])]
    /\ UNCHANGED <<keyVars, siteVars, hubVars, formVars, pageVars, chats, now,
                   task, active, listener, attached, shown, selfDropped,
                   storeOps, sentLog, creates>>

\* update({messages: arrayUnion(msg), lastUpdated: serverTimestamp()})
UpdateDocClientTime(doc, msg, time) ==
    [doc EXCEPT !.messages = ArrayUnion(@, msg),
                !.lastUpdated = msg.timestamp]

UpdateDoc(doc, msg, time) ==
    [doc EXCEPT !.messages = ArrayUnion(@, msg), !.lastUpdated = time]

\* The store applies a message update (it fails on a missing document).
UpdateApply(n) ==
    /\ outbox[n].pc = "update"
    /\ IsNextOf([kind |-> "update", n |-> n])
    /\ pending' = Applied([kind |-> "update", n |-> n])
    /\ outbox' = [outbox EXCEPT ![n] = DoneSend]
    /\ IF Exists(outbox[n].key)
       THEN /\ chats' = SetDoc(chats,
                           UpdateDoc(DocOf(outbox[n].key), outbox[n].msg,
                                     now + 1))
            /\ now' = now + 1
            /\ sentLog' = [sentLog EXCEPT ![outbox[n].key] =
                             Append(@, outbox[n].msg)]
       ELSE UNCHANGED <<chats, now, sentLog>>
    /\ UNCHANGED <<keyVars, siteVars, hubVars, formVars, pageVars, submitted,
                   task, active, listener, attached, shown, selfDropped,
                   storeOps, creates>>

\* An entry of a page's inbox is clicked: the page opens that conversation.
\* An inbox lists the conversations the viewer is a participant of.
InboxOpen(u, page, key) ==
    /\ opens < MaxOpens
    /\ \E d \in chats :
          /\ d.id = key
          /\ \E i \in 1..Len(d.participants) : d.participants[i] = u
    /\ OpenView(u, page, key)
    /\ opens' = opens + 1
    /\ UNCHANGED <<keyVars, siteVars, hubVars, formVars, inbox, badge,
                   renders, chats, now, task, outbox, pending, shown,
                   selfDropped, storeOps, sentLog, submitted, creates>>

Message(u, text, stamp) ==
    [senderId |-> u, text |-> text, timestamp |-> stamp]

Attempt(op, me, target, item) ==
    [op |-> op, me |-> me, target |-> target, item |-> item,
     key |-> KeyOf(op, me, target, item), pc |-> "done"]

\* No conversation is open on any page.
ViewsClosed ==
    /\ active = [u \in Users |-> [p \in Pages |-> None]]
    /\ listener = [u \in Users |-> [p \in Pages |-> None]]
    /\ attached = [u \in Users |-> [p \in Pages |-> <<>>]]

\* The pages' other state right after load.
StateInit ==
    /\ task = [n \in TaskIds |-> IdleTask]
    /\ outbox = [n \in SendIds |-> IdleSend]
    /\ pending = <<>>
    /\ opens = 0
    /\ inbox = [u \in Users |-> [p \in Pages |-> <<>>]]
    /\ badge = [u \in Users |-> [p \in Pages |-> <<>>]]
    /\ renders = 0
    /\ shown = [u \in Users |-> {}]
    /\ selfDropped = FALSE
    /\ storeOps = {}
    /\ authSeen = [u \in Users |-> FALSE]
    /\ currentTab = [u \in Users |-> "general"]
    /\ inboxSubs = [u \in Users |-> 0]
    /\ hubList = [u \in Users |-> <<>>]
    /\ hubMessages = [u \in Users |-> <<>>]
    /\ userCache = [u \in Users |-> [w \in Users |-> None]]
    /\ cb = [n \in 1..MaxCallbacks |-> IdleCb]
    /\ profile = [w \in People |-> 0]
    /\ form = [p \in FormPages |-> IdleForm]
    /\ btnDisabled = [p \in FormPages |-> FALSE]
    /\ formStatus = [p \in FormPages |-> "empty"]
    /\ items = {}
    /\ requests = [s \in SubmitIds |-> [uploads |-> 0, adds |-> 0]]
    /\ outcome = [s \in SubmitIds |-> "none"]
    /\ timers = [p \in FormPages |-> 0]
    /\ submits = 0
    /\ userDocs = [u \in People |-> SeededDoc(u)]
    /\ adminReq = {}
    /\ adminMsg = [f \in AdminForms |-> <<>>]
    /\ adminLog = <<>>
    /\ posts = {}
    /\ adminWrites = [s \in AdminActIds |-> 0]
    /\ adminActs = 0
    /\ accounts = Users
    /\ authReq = {}
    /\ authMsg = [f \in AuthForms |-> <<>>]
    /\ authIn = [s \in AuthActIds |-> None]
    /\ authEnd = [s \in AuthActIds |-> None]
    /\ authCalls = [s \in AuthActIds |-> 0]
    /\ docWrites = {}
    /\ redirects = {}
    /\ authActs = 0
    /\ itemStatus = [i \in Items |-> "available"]
    /\ mapLayers = {}
    /\ routingLayer = None
    /\ destinationMarker = None
    /\ route = [n \in RouteIds |-> "idle"]
    /\ routePanel = FALSE
    /\ gallery = [u \in Users |-> [i \in Items |-> "no card"]]

PagesInit == StateInit /\ ViewsClosed

\* A fresh project: the chats collection is empty.
ChatInit ==
    /\ PagesInit
    /\ chats = {}
    /\ now = 0
    /\ sentLog = [k \in AllKeys |-> <<>>]
    /\ submitted = [k \in AllKeys |-> <<>>]
    /\ creates = [k \in AllKeys |-> 0]

\* Conversations left in the store by earlier page sessions: one of each
\* category, each created by its entry point and holding one message.
PriorGeneral == Attempt("initiateChat", <<"b">>, <<"a">>, NoItem)
PriorMarket == Attempt("openChat", <<"a">>, <<"b">>, <<"i">>)
PriorLF == Attempt("contactReporter", <<"a">>, <<"b">>, <<"i">>)

PriorChats ==
    {UpdateDoc(NewDoc(PriorGeneral, 1), Message(<<"a">>, "hi", 0), 4),
     UpdateDoc(NewDoc(PriorMarket, 2), Message(<<"b">>, "hi", 0), 5),
     UpdateDoc(NewDoc(PriorLF, 3), Message(<<"a">>, "hi", 0), 6)}

\* Page sessions that start on a store which already holds conversations.
ResumeInit ==
    /\ PagesInit
    /\ chats = PriorChats
    /\ now = Cardinality(PriorChats) + Cardinality(PriorChats)
    /\ sentLog = [k \in AllKeys |->
                    IF \E d \in PriorChats : d.id = k
                    THEN (CHOOSE d \in PriorChats : d.id = k).messages
                    ELSE <<>>]
    /\ submitted = [k \in AllKeys |-> <<>>]
    /\ creates = [k \in AllKeys |->
                    IF \E d \in PriorChats : d.id = k THEN 1 ELSE 0]

\* Contact attempts: search, the three entry points and their store steps.
ContactNext ==
    \/ \E me \in Users, matches \in SUBSET Users : SearchInput(me, matches)
    \/ \E n \in TaskIds, me \in Users, target \in Users :
          InitiateChat(n, me, target)
    \/ \E n \in TaskIds, me \in Users, seller \in Users, item \in Items :
          OpenChat(n, me, seller, item)
    \/ \E n \in TaskIds, me \in Users, reporter \in Users, item \in Items :
          ContactReporter(n, me, reporter, item)
    \/ \E n \in TaskIds : GetReturn(n)
    \/ \E n \in TaskIds : SetApply(n)
    \/ \E n \in TaskIds : SetReturn(n)

\* Message sends on the three pages.
SendNext ==
    \/ \E n \in SendIds, u \in Users, page \in Pages, text \in Texts,
          stamp \in Stamps : SendMessage(n, u, page, text, stamp)
    \/ \E n \in SendIds : UpdateApply(n)

(***************************************************************************)
(* Inbox views                                                             *)
(***************************************************************************)
\* The store's clock counts ticks; a Timestamp's seconds field drops the
\* part of the time below one second.
TicksPerSecond == 2

\* lastUpdated?.seconds
Seconds(t) == t \div TicksPerSecond

IsParticipant(u, d) ==
    \E i \in 1..Len(d.participants) : d.participants[i] = u

\* where("participants", "array-contains", auth.currentUser.uid)
ViewerDocs(u) == {d \in chats : IsParticipant(u, d)}

RECURSIVE ById(_)
\* A query without orderBy returns the documents by ascending id.
ById(docs) ==
    IF docs = {} THEN <<>>
    ELSE LET first == CHOOSE d \in docs :
                         \A e \in docs \ {d} : LexLess(d.id, e.id)
         IN  <<first>> \o ById(docs \ {first})

RECURSIVE ByLastUpdatedDesc(_)
\* orderBy("lastUpdated", "desc"): later first, equal times by descending id.
ByLastUpdatedDesc(docs) ==
    IF docs = {} THEN <<>>
    ELSE LET first == CHOOSE d \in docs :
                         \A e \in docs \ {d} :
                            \/ d.lastUpdated > e.lastUpdated
                            \/ /\ d.lastUpdated = e.lastUpdated
                               /\ LexLess(e.id, d.id)
         IN  <<first>> \o ByLastUpdatedDesc(docs \ {first})

RECURSIVE InsertBySeconds(_, _)
\* One step of the stable sort with comparator timeB - timeA: d goes behind
\* every element whose seconds are not smaller than its own.
InsertBySeconds(sorted, d) ==
    IF sorted = <<>> THEN <<d>>
    ELSE IF Seconds(Head(sorted).lastUpdated) >= Seconds(d.lastUpdated)
         THEN <<Head(sorted)>> \o InsertBySeconds(Tail(sorted), d)
         ELSE <<d>> \o sorted

RECURSIVE SortBySecondsFrom(_, _)
SortBySecondsFrom(sorted, rest) ==
    IF rest = <<>> THEN sorted
    ELSE SortBySecondsFrom(InsertBySeconds(sorted, Head(rest)), Tail(rest))

\* snap.docs.sort((a, b) => timeB - timeA) of the marketplace inbox.
SortBySeconds(docs) == SortBySecondsFrom(<<>>, docs)

\* The sender of the latest message, None for a conversation without one.
LastSender(d) ==
    IF d.messages = <<>> THEN None ELSE d.messages[Len(d.messages)].senderId

IsNewAnyMessage(d, u) == d.messages # <<>>

\* isNew = lastMsg && lastMsg.senderId !== auth.currentUser.uid
IsNew(d, u) ==
    /\ d.messages # <<>>
    /\ d.messages[Len(d.messages)].senderId # u

\* typeLabel of the lost-and-found header inbox.
TypeLabel(d) == IF StartsWithLF(d.id) THEN "lf" ELSE "market"

HubCategoryPrefixOnly(id, itemId) ==
    IF StartsWithLF(id) THEN "lf" ELSE "market"

\* loadConversations: isLF, isMarket, isGeneral from the document id and the
\* itemId field (absent on a general DM).
HubCategory(id, itemId) ==
    IF StartsWithLF(id) THEN "lf"
    ELSE IF itemId # NoItem THEN "market"
    ELSE "general"

\* One rendered card: what it shows (unread mark, label) and, as a record of
\* the snapshot it was rendered from, the time and latest sender it saw.
Card(d, u, label) ==
    [id |-> d.id, seen |-> d.lastUpdated, lastSender |-> LastSender(d),
     unread |-> IsNew(d, u), label |-> label]

\* unread > 0 ? `(${unread})` : ''
CountText(n) == IF n > 0 THEN <<"(", n, ")">> ELSE <<>>

\* The unread counter after the loop over the snapshot.
UnreadCount(docs, u) ==
    Cardinality({i \in 1..Len(docs) : IsNew(docs[i], u)})

\* Marketplace loadInbox: the snapshot callback.
LoadInbox(u) ==
    LET docs == SortBySeconds(ById(ViewerDocs(u))) IN
    /\ renders < MaxRenders
    /\ renders' = renders + 1
    /\ IF docs = <<>>
       THEN /\ inbox' = [inbox EXCEPT ![u]["market"] = <<>>]
            /\ UNCHANGED badge
       ELSE /\ inbox' = [inbox EXCEPT ![u]["market"] =
                           [i \in 1..Len(docs) |-> Card(docs[i], u, "")]]
            /\ badge' = [badge EXCEPT ![u]["market"] =
                           CountText(UnreadCount(docs, u))]
    /\ UNCHANGED <<keyVars, siteVars, hubVars, formVars, chatVars, opens>>

\* Lost-and-found loadHeaderInbox: the snapshot callback.
LoadHeaderInbox(u) ==
    LET docs == ByLastUpdatedDesc(ViewerDocs(u)) IN
    /\ renders < MaxRenders
    /\ renders' = renders + 1
    /\ inbox' = [inbox EXCEPT ![u]["lf"] =
                    [i \in 1..Len(docs) |->
                        Card(docs[i], u, TypeLabel(docs[i]))]]
    /\ badge' = [badge EXCEPT ![u]["lf"] = CountText(UnreadCount(docs, u))]
    /\ UNCHANGED <<keyVars, siteVars, hubVars, formVars, chatVars, opens>>

\* A marketplace conversation of an earlier session without a message yet.
PriorEmpty == Attempt("openChat", <<"b">>, <<"a">>, <<"j">>)

InboxChats == PriorChats \cup {NewDoc(PriorEmpty, 7)}

\* Page sessions on a store that holds conversations with and without
\* messages.
InboxStore ==
    /\ chats = InboxChats
    /\ now = 7
    /\ sentLog = [k \in AllKeys |->
                    IF \E d \in InboxChats : d.id = k
                    THEN (CHOOSE d \in InboxChats : d.id = k).messages
                    ELSE <<>>]
    /\ submitted = [k \in AllKeys |-> <<>>]
    /\ creates = [k \in AllKeys |->
                    IF \E d \in InboxChats : d.id = k THEN 1 ELSE 0]

InboxInit == PagesInit /\ InboxStore

\* The conversation each user has open on the chat hub in BadgeInit.
OpenOnHub(u) == IF u = <<"a">> THEN PriorMarket.key ELSE PriorGeneral.key

\* Both users have opened a conversation from the hub's list.
BadgeInit ==
    /\ StateInit
    /\ InboxStore
    /\ active = [u \in Users |-> [p \in Pages |->
                    IF p = "hub" THEN OpenOnHub(u) ELSE None]]
    /\ listener = [u \in Users |-> [p \in Pages |->
                      IF p = "hub" THEN OpenOnHub(u) ELSE None]]
    /\ attached = [u \in Users |-> [p \in Pages |->
                      IF p = "hub" THEN <<OpenOnHub(u)>> ELSE <<>>]]

\* The inbox views of the marketplace and the lost-and-found page.
InboxNext ==
    \/ \E u \in Users : LoadInbox(u)
    \/ \E u \in Users : LoadHeaderInbox(u)

(***************************************************************************)
(* Chat hub: inbox subscription, conversation list, message view, cache    *)
(***************************************************************************)
Tabs == {"general", "marketplace", "lost-found"}

CbIds == 1..MaxCallbacks

FreeCb(n) ==
    /\ cb[n].pc = "idle"
    /\ \A m \in CbIds : m < n => cb[m].pc # "idle"

\* The tab filter of loadConversations: the `continue` tests.
TabShows(tab, cat) ==
    \/ tab = "lost-found" /\ cat = "lf"
    \/ tab = "marketplace" /\ cat = "market"
    \/ tab = "general" /\ cat = "general"

\* chat.participants.find(id => id !== auth.currentUser.uid)
OtherUid(d, u) ==
    IF d.participants[1] # u THEN d.participants[1] ELSE d.participants[2]

\* The entry loadConversations stores: name and picture of the profile read.
InboxEntry(w) == [name |-> <<profile[w]>>, pfp |-> <<profile[w]>>]

\* The entry the message view stores: the picture only.
ViewEntry(w) == [name |-> <<>>, pfp |-> <<profile[w]>>]

HubCard(d, entry) ==
    [id |-> d.id, name |-> entry.name,
     category |-> HubCategory(d.id, d.itemId)]

Bubble(msg, u, entry) ==
    [text |-> msg.text, isMe |-> msg.senderId = u, pic |-> entry.pfp]

RECURSIVE HubRun(_, _, _, _, _)
\* The loop of the inbox callback from a given document on, up to its next
\* await: documents hidden by the tab are skipped, a document whose other
\* participant is cached is rendered, and the loop stops at the first whose
\* other participant is not.
HubRun(list, cache, docs, u, tab) ==
    IF docs = <<>> THEN [list |-> list, rest |-> <<>>]
    ELSE IF ~TabShows(tab, HubCategory(Head(docs).id, Head(docs).itemId))
         THEN HubRun(list, cache, Tail(docs), u, tab)
    ELSE IF cache[OtherUid(Head(docs), u)] = None
         THEN [list |-> list, rest |-> docs]
    ELSE HubRun(Append(list, HubCard(Head(docs),
                                     cache[OtherUid(Head(docs), u)])),
                cache, Tail(docs), u, tab)

RECURSIVE ViewRun(_, _, _, _)
\* The loop of the message-view callback from a given message on, up to its
\* next await.
ViewRun(list, cache, msgs, u) ==
    IF msgs = <<>> THEN [list |-> list, rest |-> <<>>]
    ELSE IF cache[Head(msgs).senderId] = None
         THEN [list |-> list, rest |-> msgs]
    ELSE ViewRun(Append(list, Bubble(Head(msgs), u,
                                     cache[Head(msgs).senderId])),
                 cache, Tail(msgs), u)

\* A callback that reached an await is suspended; one that ran to its end is
\* gone.
Suspended(kind, u, rest) ==
    IF rest = <<>> THEN IdleCb
    ELSE [kind |-> kind, viewer |-> u, rest |-> rest, pc |-> "await"]

\* loadConversations: with a signed-in user it attaches one more onSnapshot
\* to the chats query; the unsubscribe function it returns is not kept.
AttachInbox(n, seen) == IF seen THEN n + 1 ELSE n

\* auth.onAuthStateChanged(user): switchTab('general').
AuthStateChanged(u) ==
    /\ ~authSeen[u]
    /\ authSeen' = [authSeen EXCEPT ![u] = TRUE]
    /\ currentTab' = [currentTab EXCEPT ![u] = "general"]
    /\ inboxSubs' = [inboxSubs EXCEPT ![u] = AttachInbox(@, TRUE)]
    /\ UNCHANGED <<keyVars, siteVars, chatVars, pageVars, formVars, hubList,
                   hubMessages, userCache, cb, profile>>

\* window.switchTab(tabName)
SwitchTab(u, tab) ==
    /\ inboxSubs[u] < MaxInboxSubs
    /\ currentTab' = [currentTab EXCEPT ![u] = tab]
    /\ inboxSubs' = [inboxSubs EXCEPT ![u] = AttachInbox(@, authSeen[u])]
    /\ UNCHANGED <<keyVars, siteVars, chatVars, pageVars, formVars, authSeen,
                   hubList, hubMessages, userCache, cb, profile>>

\* The inbox snapshot callback of loadConversations, up to its first await.
HubSnapshot(n, u) ==
    LET r == HubRun(<<>>, userCache[u], ByLastUpdatedDesc(ViewerDocs(u)), u,
                    currentTab[u])
    IN  /\ FreeCb(n)
        /\ inboxSubs[u] > 0
        /\ hubList' = [hubList EXCEPT ![u] = r.list]
        /\ cb' = [cb EXCEPT ![n] = Suspended("inbox", u, r.rest)]
        /\ UNCHANGED <<keyVars, siteVars, chatVars, pageVars, formVars,
                       authSeen, currentTab, inboxSubs, hubMessages,
                       userCache, profile>>

\* users/<otherUid>.get() resolves in an inbox callback: the entry is
\* stored, the card is appended and the loop goes on to its next await.
HubResume(n) ==
    LET u == cb[n].viewer
        d == Head(cb[n].rest)
        w == OtherUid(d, u)
        cache == [userCache[u] EXCEPT ![w] = InboxEntry(w)]
        r == HubRun(Append(hubList[u], HubCard(d, cache[w])), cache,
                    Tail(cb[n].rest), u, currentTab[u])
    IN  /\ cb[n].pc = "await"
        /\ cb[n].kind = "inbox"
        /\ userCache' = [userCache EXCEPT ![u] = cache]
        /\ hubList' = [hubList EXCEPT ![u] = r.list]
        /\ cb' = [cb EXCEPT ![n] = Suspended("inbox", u, r.rest)]
        /\ UNCHANGED <<keyVars, siteVars, chatVars, pageVars, formVars,
                       authSeen, currentTab, inboxSubs, hubMessages, profile>>

\* A card of the conversation list is clicked: openChat(chatId, name).
CardClick(u, i) ==
    /\ opens < MaxOpens
    /\ i \in 1..Len(hubList[u])
    /\ OpenView(u, "hub", hubList[u][i].id)
    /\ opens' = opens + 1
    /\ UNCHANGED <<keyVars, siteVars, hubVars, formVars, inbox, badge,
                   renders, chats, now, task, outbox, pending, shown,
                   selfDropped, storeOps, sentLog, submitted, creates>>

\* The snapshot callback of the hub's openChat, up to its first await.
ViewSnapshot(n, u) ==
    LET r == ViewRun(<<>>, userCache[u], DocOf(active[u]["hub"]).messages, u)
    IN  /\ FreeCb(n)
        /\ attached[u]["hub"] # <<>>
        /\ Exists(active[u]["hub"])
        /\ hubMessages' = [hubMessages EXCEPT ![u] = r.list]
        /\ cb' = [cb EXCEPT ![n] = Suspended("view", u, r.rest)]
        /\ UNCHANGED <<keyVars, siteVars, chatVars, pageVars, formVars,
                       authSeen, currentTab, inboxSubs, hubList, userCache,
                       profile>>

\* users/<senderId>.get() resolves in a message-view callback.
ViewResume(n) ==
    LET u == cb[n].viewer
        msg == Head(cb[n].rest)
        w == msg.senderId
        cache == [userCache[u] EXCEPT ![w] = ViewEntry(w)]
        r == ViewRun(Append(hubMessages[u], Bubble(msg, u, cache[w])), cache,
                     Tail(cb[n].rest), u)
    IN  /\ cb[n].pc = "await"
        /\ cb[n].kind = "view"
        /\ userCache' = [userCache EXCEPT ![u] = cache]
        /\ hubMessages' = [hubMessages EXCEPT ![u] = r.list]
        /\ cb' = [cb EXCEPT ![n] = Suspended("view", u, r.rest)]
        /\ UNCHANGED <<keyVars, siteVars, chatVars, pageVars, formVars,
                       authSeen, currentTab, inboxSubs, hubList, profile>>

ReplaceDoc(doc, name, email) ==
    [name |-> name, email |-> email, role |-> "none"]

\* set({name, ..., email, ...}, {merge: true}): the fields given are
\* written, the others, role among them, stay as they are; a record that
\* did not exist has no role.
MergeDoc(doc, name, email) ==
    [name |-> name, email |-> email,
     role |-> IF doc = None THEN "none" ELSE doc.role]

\* The profile form is saved by a signed-in user: users/<uid> gets a new
\* name and picture.
SaveProfile(w) ==
    /\ w \in accounts
    /\ profile[w] < MaxProfileEdits
    /\ profile' = [profile EXCEPT ![w] = @ + 1]
    /\ userDocs' = [userDocs EXCEPT ![w] =
                       MergeDoc(@, <<"name", w, profile[w] + 1>>,
                                EmailOf(w))]
    /\ UNCHANGED <<keyVars, chatVars, pageVars, formVars, authSeen,
                   currentTab, inboxSubs, hubList, hubMessages, userCache, cb,
                   authVars, itemVars, mapVars, adminReq, adminMsg, adminLog,
                   posts, adminWrites, adminActs>>

\* The user whose pages HubSpec and ViewSpec follow.
Viewer == <<"a">>

HubNext ==
    \/ AuthStateChanged(Viewer)
    \/ \E tab \in Tabs : SwitchTab(Viewer, tab)
    \/ \E n \in CbIds : HubSnapshot(n, Viewer)
    \/ \E n \in CbIds : HubResume(n)
    \/ \E i \in 1..Cardinality(AllKeys) : CardClick(Viewer, i)
    \/ \E n \in CbIds : ViewSnapshot(n, Viewer)
    \/ \E n \in CbIds : ViewResume(n)
    \/ \E w \in Users : SaveProfile(w)

(***************************************************************************)
(* Item submission: the marketplace listing form and the lost-and-found    *)
(* report form                                                             *)
(***************************************************************************)
\* What the image host can answer to the upload request: the JSON of a
\* stored image, the JSON of an error, or a body that is not JSON.
Responses == {"stored", "errorJson", "notJson"}

\* cloudData.secure_url / data.secure_url of a parsed body.
SecureUrl(body) == IF body = "stored" THEN "url" ELSE "undefined"

Placeholder == "placeholder"

\* The status texts of the two forms.
Processing == "processing"
Posted == "posted"
ErrorStatus == "error"
NeedImage == "need image"

DisabledAfterTry(result) == result = "failed"

\* finally { submitBtn.disabled = false }
DisabledAfter(result) == FALSE

\* The handler leaves its try block with a result: the catch block sets the
\* error status, the success path the posted status and the 1.5 s timer;
\* the finally block runs on both.
Finish(p, result) ==
    /\ form' = [form EXCEPT ![p] = IdleForm]
    /\ outcome' = [outcome EXCEPT ![form[p].sub] = result]
    /\ formStatus' = [formStatus EXCEPT ![p] =
                          IF result = "failed" THEN ErrorStatus ELSE Posted]
    /\ btnDisabled' = [btnDisabled EXCEPT ![p] = DisabledAfter(result)]
    /\ timers' = [timers EXCEPT ![p] = IF result = "ok" THEN @ + 1 ELSE @]

\* db.collection(...).add({..., imageUrl: url}) is called: a field that is
\* undefined makes add throw before any request is issued.
CallAdd(p, url) ==
    IF url = "undefined"
    THEN /\ Finish(p, "failed")
         /\ UNCHANGED requests
    ELSE /\ form' = [form EXCEPT ![p].pc = "add", ![p].url = url]
         /\ requests' = [requests EXCEPT ![form[p].sub].adds = @ + 1]
         /\ UNCHANGED <<outcome, formStatus, btnDisabled, timers>>

\* The submit event of a form, up to the handler's first await. The
\* marketplace form returns with a warning when no image was chosen; the
\* lost-and-found form goes on with the placeholder image.
Submit(p, hasImage) ==
    LET s == submits + 1
    IN  /\ submits < MaxSubmits
        /\ ~btnDisabled[p]
        /\ submits' = s
        /\ IF p = "market" /\ ~hasImage
           THEN /\ formStatus' = [formStatus EXCEPT ![p] = NeedImage]
                /\ outcome' = [outcome EXCEPT ![s] = "no image"]
                /\ UNCHANGED <<form, btnDisabled, requests>>
           ELSE /\ btnDisabled' = [btnDisabled EXCEPT ![p] = TRUE]
                /\ formStatus' = [formStatus EXCEPT ![p] = Processing]
                /\ outcome' = [outcome EXCEPT ![s] = "running"]
                /\ IF hasImage
                   THEN /\ form' = [form EXCEPT ![p] =
                               [pc |-> "fetch", sub |-> s, body |-> "none",
                                url |-> "none"]]
                        /\ requests' = [requests EXCEPT ![s].uploads = @ + 1]
                   ELSE /\ form' = [form EXCEPT ![p] =
                               [pc |-> "add", sub |-> s, body |-> "none",
                                url |-> Placeholder]]
                        /\ requests' = [requests EXCEPT ![s].adds = @ + 1]
        /\ UNCHANGED <<keyVars, siteVars, chatVars, pageVars, hubVars, items,
                       timers>>

\* await fetch(...) resolves: the image host answered, with any status.
FetchResolves(p, body) ==
    /\ form[p].pc = "fetch"
    /\ form' = [form EXCEPT ![p].pc = "json", ![p].body = body]
    /\ UNCHANGED <<keyVars, siteVars, chatVars, pageVars, hubVars,
                   btnDisabled, formStatus, items, requests, outcome, timers,
                   submits>>

\* await fetch(...) rejects: the request did not get through.
FetchRejects(p) ==
    /\ form[p].pc = "fetch"
    /\ Finish(p, "failed")
    /\ UNCHANGED <<keyVars, siteVars, chatVars, pageVars, hubVars, items,
                   requests, submits>>

\* await res.json() settles, and on a parsed body the record is added.
JsonSettles(p) ==
    /\ form[p].pc = "json"
    /\ IF form[p].body = "notJson"
       THEN /\ Finish(p, "failed")
            /\ UNCHANGED requests
       ELSE CallAdd(p, SecureUrl(form[p].body))
    /\ UNCHANGED <<keyVars, siteVars, chatVars, pageVars, hubVars, items,
                   submits>>

\* await add(...) resolves: the record is in the collection.
AddResolves(p) ==
    /\ form[p].pc = "add"
    /\ items' = items \cup
           {[page |-> p, sub |-> form[p].sub, imageUrl |-> form[p].url]}
    /\ Finish(p, "ok")
    /\ UNCHANGED <<keyVars, siteVars, chatVars, pageVars, hubVars, requests,
                   submits>>

\* await add(...) rejects: the store refused or lost the write.
AddRejects(p) ==
    /\ form[p].pc = "add"
    /\ Finish(p, "failed")
    /\ UNCHANGED <<keyVars, siteVars, chatVars, pageVars, hubVars, items,
                   requests, submits>>

\* The timer set after a success fires: the status line is cleared.
TimerFires(p) ==
    /\ timers[p] > 0
    /\ timers' = [timers EXCEPT ![p] = @ - 1]
    /\ formStatus' = [formStatus EXCEPT ![p] = "empty"]
    /\ UNCHANGED <<keyVars, siteVars, chatVars, pageVars, hubVars, form,
                   btnDisabled, items, requests, outcome, submits>>

SubmitNext ==
    \/ \E p \in FormPages, hasImage \in BOOLEAN : Submit(p, hasImage)
    \/ \E p \in FormPages, body \in Responses : FetchResolves(p, body)
    \/ \E p \in FormPages : FetchRejects(p)
    \/ \E p \in FormPages : JsonSettles(p)
    \/ \E p \in FormPages : AddResolves(p)
    \/ \E p \in FormPages : AddRejects(p)
    \/ \E p \in FormPages : TimerFires(p)

(***************************************************************************)
(* Privileged writes: the dashboard's announcement form and the mess       *)
(* menu's publication form                                                 *)
(***************************************************************************)
\* The errors with which the store rejects a write.
PermissionDenied ==
    [code |-> "permission-denied",
     message |-> "Missing or insufficient permissions."]

QuotaExceeded ==
    [code |-> "resource-exhausted", message |-> "Quota exceeded."]

\* The store's access rule for announcements and menus, as the
\* specification words it: only an admin may write them.
MayPublish(u) == userDocs[u] # None /\ userDocs[u].role = "admin"

\* The rejections the store can answer a write of user u with.
Rejections(u) ==
    IF MayPublish(u) THEN {QuotaExceeded} ELSE {PermissionDenied}

\* The success line of each form.
PublishedLine(f) ==
    IF f = "announce" THEN <<"Broadcast sent successfully!">>
    ELSE <<"Updated ", "successfully!">>

\* The catch block of each form: the dashboard shows a fixed text, the mess
\* menu a prefix followed by error.message.
ErrorLine(f, err) ==
    IF f = "announce" THEN <<"Access Denied: Admin only.">>
    ELSE <<"Update Failed: ", err.message>>

\* The submit event of a form, up to the await of its one write.
AdminSubmit(u, f) ==
    LET s == adminActs + 1
    IN  /\ adminActs < MaxAdminActs
        /\ adminActs' = s
        /\ adminReq' = adminReq \cup {[id |-> s, form |-> f, user |-> u]}
        /\ adminWrites' = [adminWrites EXCEPT ![s] = @ + 1]
        /\ UNCHANGED <<appVars, mapVars, itemVars, authVars, userDocs,
                       adminMsg, adminLog, posts>>

\* The write is accepted: the record is stored and the success line shown.
AdminAccepted(r) ==
    /\ r \in adminReq
    /\ MayPublish(r.user)
    /\ adminReq' = adminReq \ {r}
    /\ posts' = posts \cup {[id |-> r.id, form |-> r.form,
                            by |-> EmailOf(r.user)]}
    /\ adminMsg' = [adminMsg EXCEPT ![r.form] = PublishedLine(r.form)]
    /\ UNCHANGED <<appVars, mapVars, itemVars, authVars, userDocs, adminLog,
                   adminWrites, adminActs>>

\* The write is rejected: the catch block shows its line.
AdminRejected(r, err) ==
    /\ r \in adminReq
    /\ err \in Rejections(r.user)
    /\ adminReq' = adminReq \ {r}
    /\ adminMsg' = [adminMsg EXCEPT ![r.form] = ErrorLine(r.form, err)]
    /\ adminLog' = Append(adminLog,
                      [id |-> r.id, form |-> r.form, err |-> err,
                       shown |-> ErrorLine(r.form, err)])
    /\ UNCHANGED <<appVars, mapVars, itemVars, authVars, userDocs, posts,
                   adminWrites, adminActs>>

AdminRequests ==
    [id : AdminActIds, form : AdminForms, user : Users]

AdminNext ==
    \/ \E u \in Users, f \in AdminForms : AdminSubmit(u, f)
    \/ \E r \in AdminRequests : AdminAccepted(r)
    \/ \E r \in AdminRequests, err \in {PermissionDenied, QuotaExceeded} :
          AdminRejected(r, err)

(***************************************************************************)
(* Identity: the sign-up and login forms                                   *)
(***************************************************************************)
MinPassword == 6

\* The password lengths tried: one too short, one just long enough.
PasswordLengths == {MinPassword - 1, MinPassword}

PasswordNeverShort(len) == FALSE

\* password.length < 6
PasswordTooShort(len) == len < MinPassword

\* The lines the two forms show.
WeakLine == <<"Password must be at least 6 characters long.">>

RegisteredLine == <<"Registration successful! Redirecting to dashboard...">>

RegistrationFailedLine(err) == <<"Registration failed: ", err>>

LoggedInLine == <<"Login successful! Redirecting...">>

LoginFailedLine == <<"Login failed. Please check your credentials.">>

\* The errors of the identity service and of the users write.
EmailInUse == "auth/email-already-in-use"

WeakPassword == "auth/weak-password"

NetworkFailed == "auth/network-request-failed"

WrongCredentials == "auth/wrong-password"

\* A handler reaches its end: its line is shown and its result recorded.
AuthFinish(r, result, line) ==
    /\ authReq' = authReq \ {r}
    /\ authMsg' = [authMsg EXCEPT ![r.form] = line]
    /\ authEnd' = [authEnd EXCEPT ![r.id] =
                      [result |-> result, shown |-> line]]

\* The sign-up form is submitted: the length check, then
\* createUserWithEmailAndPassword.
Signup(who, len) ==
    LET s == authActs + 1
    IN  /\ authActs < MaxAuthActs
        /\ authActs' = s
        /\ authIn' = [authIn EXCEPT ![s] =
                         [form |-> "signup", who |-> who, len |-> len]]
        /\ IF PasswordTooShort(len)
           THEN /\ authMsg' = [authMsg EXCEPT !["signup"] = WeakLine]
                /\ authEnd' = [authEnd EXCEPT ![s] =
                                  [result |-> "weak", shown |-> WeakLine]]
                /\ UNCHANGED <<authReq, authCalls>>
           ELSE /\ authReq' = authReq \cup
                       {[id |-> s, form |-> "signup", who |-> who,
                         len |-> len, pc |-> "create"]}
                /\ authCalls' = [authCalls EXCEPT ![s] = @ + 1]
                /\ UNCHANGED <<authMsg, authEnd>>
        /\ UNCHANGED <<appVars, mapVars, itemVars, adminVars, accounts,
                       docWrites, redirects>>

\* The identity service creates the account: the users record is written.
CreateResolves(r) ==
    /\ r \in authReq
    /\ r.pc = "create"
    /\ r.who \notin accounts
    /\ ~(r.len < MinPassword)
    /\ accounts' = accounts \cup {r.who}
    /\ authReq' = (authReq \ {r}) \cup {[r EXCEPT !.pc = "set"]}
    /\ UNCHANGED <<appVars, mapVars, itemVars, adminVars, authMsg, authIn,
                   authEnd, authCalls, docWrites, redirects, authActs>>

\* The errors createUserWithEmailAndPassword can reject a request with.
CreateErrors(r) ==
    {NetworkFailed}
    \cup (IF r.who \in accounts THEN {EmailInUse} ELSE {})
    \cup (IF r.len < MinPassword THEN {WeakPassword} ELSE {})

\* The identity service rejects the registration.
CreateRejects(r, err) ==
    /\ r \in authReq
    /\ r.pc = "create"
    /\ err \in CreateErrors(r)
    /\ AuthFinish(r, "failed", RegistrationFailedLine(err))
    /\ UNCHANGED <<appVars, mapVars, itemVars, adminVars, accounts, authIn,
                   authCalls, docWrites, redirects, authActs>>

\* users/<uid>.set({name, email, role: "student", createdAt}) is stored.
DocSetResolves(r) ==
    /\ r \in authReq
    /\ r.pc = "set"
    /\ userDocs' = [userDocs EXCEPT ![r.who] = UserDoc(r.who, "student")]
    /\ docWrites' = docWrites \cup
           {[id |-> r.id, uid |-> r.who, role |-> "student"]}
    /\ redirects' = redirects \cup {r.id}
    /\ AuthFinish(r, "ok", RegisteredLine)
    /\ UNCHANGED <<appVars, mapVars, itemVars, adminReq, adminMsg, adminLog,
                   posts, adminWrites, adminActs, accounts, authIn, authCalls,
                   authActs>>

\* The users write is rejected after the account was created.
DocSetRejects(r) ==
    /\ r \in authReq
    /\ r.pc = "set"
    /\ AuthFinish(r, "no record", RegistrationFailedLine(QuotaExceeded.code))
    /\ UNCHANGED <<appVars, mapVars, itemVars, adminVars, accounts, authIn,
                   authCalls, docWrites, redirects, authActs>>

\* The login form is submitted: signInWithEmailAndPassword.
Login(who, good) ==
    LET s == authActs + 1
    IN  /\ authActs < MaxAuthActs
        /\ authActs' = s
        /\ authIn' = [authIn EXCEPT ![s] =
                         [form |-> "login", who |-> who, len |-> 0]]
        /\ authReq' = authReq \cup
               {[id |-> s, form |-> "login", who |-> who, len |-> 0,
                 pc |-> IF good THEN "sign in" ELSE "bad sign in"]}
        /\ authCalls' = [authCalls EXCEPT ![s] = @ + 1]
        /\ UNCHANGED <<appVars, mapVars, itemVars, adminVars, accounts,
                       authMsg, authEnd, docWrites, redirects>>

\* The identity service accepts the credentials.
SignInResolves(r) ==
    /\ r \in authReq
    /\ r.pc = "sign in"
    /\ r.who \in accounts
    /\ redirects' = redirects \cup {r.id}
    /\ AuthFinish(r, "ok", LoggedInLine)
    /\ UNCHANGED <<appVars, mapVars, itemVars, adminVars, accounts, authIn,
                   authCalls, docWrites, authActs>>

\* The identity service rejects the credentials, or cannot be reached.
SignInRejects(r) ==
    /\ r \in authReq
    /\ r.pc \in {"sign in", "bad sign in"}
    /\ AuthFinish(r, "failed", LoginFailedLine)
    /\ UNCHANGED <<appVars, mapVars, itemVars, adminVars, accounts, authIn,
                   authCalls, docWrites, redirects, authActs>>

\* The people at the entry page: one who has an account, one who has none.
Applicants == {<<"a">>} \cup Newcomers

AuthRequests ==
    [id : AuthActIds, form : AuthForms, who : Applicants,
     len : PasswordLengths \cup {0},
     pc : {"create", "set", "sign in", "bad sign in"}]

\* Sign-ups and profile updates.
RoleNext ==
    \/ \E who \in Applicants : Signup(who, MinPassword)
    \/ \E r \in AuthRequests : CreateResolves(r)
    \/ \E r \in AuthRequests,
          err \in {EmailInUse, WeakPassword, NetworkFailed} :
          CreateRejects(r, err)
    \/ \E r \in AuthRequests : DocSetResolves(r)
    \/ \E r \in AuthRequests : DocSetRejects(r)
    \/ \E w \in People : SaveProfile(w)

AuthNext ==
    \/ \E who \in Applicants, len \in PasswordLengths : Signup(who, len)
    \/ \E r \in AuthRequests : CreateResolves(r)
    \/ \E r \in AuthRequests,
          err \in {EmailInUse, WeakPassword, NetworkFailed} :
          CreateRejects(r, err)
    \/ \E r \in AuthRequests : DocSetResolves(r)
    \/ \E r \in AuthRequests : DocSetRejects(r)
    \/ \E who \in Applicants, good \in BOOLEAN : Login(who, good)
    \/ \E r \in AuthRequests : SignInResolves(r)
    \/ \E r \in AuthRequests : SignInRejects(r)

(***************************************************************************)
(* Marketplace gallery: rendering, marking as sold, chatting from a card   *)
(***************************************************************************)
\* item.sellerId of the two listings.
SellerOf(i) == IF i = <<"i">> THEN <<"b">> ELSE <<"a">>

\* The button renderMarketplace puts on the card of an item, from the
\* snapshot's status; with the hide-sold filter a sold item gets no card.
ButtonFor(u, i, status, hideSold) ==
    IF hideSold /\ status # "available" THEN "no card"
    ELSE IF u = SellerOf(i) /\ status = "available" THEN "mark as sold"
    ELSE IF status = "available" THEN "chat with seller"
    ELSE "item sold"

\* A snapshot of marketplace_items reaches a user's gallery.
RenderMarketplace(u, hideSold) ==
    /\ gallery' = [gallery EXCEPT ![u] =
                      [i \in Items |->
                          ButtonFor(u, i, itemStatus[i], hideSold)]]
    /\ gallery' # gallery
    /\ UNCHANGED <<appVars, mapVars, adminVars, authVars, itemStatus>>

\* markAsSold(itemId), confirmed: update({status: 'sold'}).
MarkAsSold(u, i) ==
    /\ gallery[u][i] = "mark as sold"
    /\ itemStatus' = [itemStatus EXCEPT ![i] = "sold"]
    /\ UNCHANGED <<appVars, mapVars, adminVars, authVars, gallery>>

\* The "Chat with Seller" button of a rendered card is clicked.
GalleryChat(n, me, i) ==
    /\ gallery[me][i] = "chat with seller"
    /\ OpenChat(n, me, SellerOf(i), i)

MarketNext ==
    \/ \E u \in Users, hideSold \in BOOLEAN : RenderMarketplace(u, hideSold)
    \/ \E u \in Users, i \in Items : MarkAsSold(u, i)
    \/ \E n \in TaskIds, me \in Users, i \in Items : GalleryChat(n, me, i)
    \/ \E n \in TaskIds : GetReturn(n)
    \/ \E n \in TaskIds : SetApply(n)
    \/ \E n \in TaskIds : SetReturn(n)

(***************************************************************************)
(* Campus map: walking routes                                              *)
(***************************************************************************)
\* The layer and the marker a startRouting call adds to the map.
RouteLayerOf(n) == <<"route", n>>
MarkerOf(n) == <<"marker", n>>

\* if (routingLayer) map.removeLayer(routingLayer);
\* if (destinationMarker) map.removeLayer(destinationMarker);
RemoveRecorded(layers) == layers \ {routingLayer, destinationMarker}

FreeRoute(n) ==
    /\ route[n] = "idle"
    /\ \A m \in RouteIds : m < n => route[m] # "idle"

\* window.startRouting(lat, lng, name) up to await fetch(url): the recorded
\* layer and marker are taken off the map and the request is issued.
StartRouting(n) ==
    /\ FreeRoute(n)
    /\ mapLayers' = RemoveRecorded(mapLayers)
    /\ route' = [route EXCEPT ![n] = "fetch"]
    /\ UNCHANGED <<appVars, adminVars, authVars, itemVars, routingLayer,
                   destinationMarker, routePanel>>

\* fetch resolves: a response that is not ok ends the call with an alert,
\* another goes on to await res.json().
RouteFetchResolves(n, ok) ==
    /\ route[n] = "fetch"
    /\ route' = [route EXCEPT ![n] = IF ok THEN "json" ELSE "alerted"]
    /\ UNCHANGED <<appVars, adminVars, authVars, itemVars, mapLayers,
                   routingLayer, destinationMarker, routePanel>>

\* fetch or res.json() rejects: the catch block alerts.
RouteRejects(n) ==
    /\ route[n] \in {"fetch", "json"}
    /\ route' = [route EXCEPT ![n] = "alerted"]
    /\ UNCHANGED <<appVars, adminVars, authVars, itemVars, mapLayers,
                   routingLayer, destinationMarker, routePanel>>

\* res.json() resolves: without a feature the call alerts; with one the
\* layer and the marker are added to the map and recorded, and the route
\* panel is displayed.
JsonResolves(n, hasRoute) ==
    /\ route[n] = "json"
    /\ IF hasRoute
       THEN /\ mapLayers' = mapLayers \cup {RouteLayerOf(n), MarkerOf(n)}
            /\ routingLayer' = RouteLayerOf(n)
            /\ destinationMarker' = MarkerOf(n)
            /\ routePanel' = TRUE
            /\ route' = [route EXCEPT ![n] = "drawn"]
       ELSE /\ route' = [route EXCEPT ![n] = "alerted"]
            /\ UNCHANGED <<mapLayers, routingLayer, destinationMarker,
                           routePanel>>
    /\ UNCHANGED <<appVars, adminVars, authVars, itemVars>>

\* window.clearRoute()
ClearRoute ==
    /\ mapLayers' = RemoveRecorded(mapLayers)
    /\ routePanel' = FALSE
    /\ UNCHANGED <<appVars, adminVars, authVars, itemVars, routingLayer,
                   destinationMarker, route>>

MapNext ==
    \/ \E n \in RouteIds : StartRouting(n)
    \/ \E n \in RouteIds, ok \in BOOLEAN : RouteFetchResolves(n, ok)
    \/ \E n \in RouteIds : RouteRejects(n)
    \/ \E n \in RouteIds, hasRoute \in BOOLEAN : JsonResolves(n, hasRoute)
    \/ ClearRoute

(***************************************************************************)
(* Specifications                                                          *)
(***************************************************************************)
\* Contact attempts and message sends on an initially empty store.
Init == KeyInit /\ ChatInit

Next == ContactNext \/ SendNext

Spec == Init /\ [][Next]_vars

\* Contact attempts alone, on an initially empty store.
ContactSpec == Init /\ [][ContactNext]_vars

\* Contact attempts alone, on a store that already holds conversations.
ResumeSpecInit == KeyInit /\ ResumeInit

ResumeSpec == ResumeSpecInit /\ [][ContactNext]_vars

\* Inbox clicks and message sends on a store that holds conversations.
SendSpecNext ==
    \/ \E u \in Users, page \in Pages, key \in AllKeys :
          InboxOpen(u, page, key)
    \/ SendNext

SendSpec == ResumeSpecInit /\ [][SendSpecNext]_vars

\* The inbox views of the marketplace and the lost-and-found page, while
\* the users open conversations and send messages in the chat hub.
InboxSpecInit == KeyInit /\ InboxInit

InboxSpecNext ==
    \/ InboxNext
    \/ \E u \in Users, key \in AllKeys : InboxOpen(u, "hub", key)
    \/ \E n \in SendIds, u \in Users, text \in Texts, stamp \in Stamps :
          SendMessage(n, u, "hub", text, stamp)
    \/ \E n \in SendIds : UpdateApply(n)

InboxSpec == InboxSpecInit /\ [][InboxSpecNext]_vars

\* The item ViewSpec's contact attempts are about.
NewItem == <<"j">>

\* Conversations opened from the inboxes of the three pages and by the
\* contextual contact attempts of one user.
ViewSpecNext ==
    \/ \E page \in Pages, key \in AllKeys : InboxOpen(Viewer, page, key)
    \/ \E n \in TaskIds, seller \in Users :
          OpenChat(n, Viewer, seller, NewItem)
    \/ \E n \in TaskIds, reporter \in Users :
          ContactReporter(n, Viewer, reporter, NewItem)
    \/ \E n \in TaskIds : GetReturn(n)
    \/ \E n \in TaskIds : SetApply(n)
    \/ \E n \in TaskIds : SetReturn(n)

\* Every way one user opens a conversation, on an initially empty store:
\* the hub's search, the two contextual contacts and the inbox clicks.
PaneNext ==
    \/ \E page \in Pages, key \in AllKeys : InboxOpen(Viewer, page, key)
    \/ \E matches \in SUBSET Users : SearchInput(Viewer, matches)
    \/ \E n \in TaskIds, target \in Users : InitiateChat(n, Viewer, target)
    \/ \E n \in TaskIds, seller \in Users :
          OpenChat(n, Viewer, seller, NewItem)
    \/ \E n \in TaskIds, reporter \in Users :
          ContactReporter(n, Viewer, reporter, NewItem)
    \/ \E n \in TaskIds : GetReturn(n)
    \/ \E n \in TaskIds : SetApply(n)
    \/ \E n \in TaskIds : SetReturn(n)

PaneSpec == Init /\ [][PaneNext]_vars

\* The writes to conversation records from the chat hub: one user starts
\* conversations from the search results and from a marketplace card and
\* sends messages to the one that is open in the hub.
ClockNext ==
    \/ \E matches \in SUBSET Users : SearchInput(Viewer, matches)
    \/ \E n \in TaskIds, target \in Users : InitiateChat(n, Viewer, target)
    \/ \E n \in TaskIds, seller \in Users \ {Viewer} :
          OpenChat(n, Viewer, seller, NewItem)
    \/ \E n \in TaskIds : GetReturn(n)
    \/ \E n \in TaskIds : SetApply(n)
    \/ \E n \in TaskIds : SetReturn(n)
    \/ \E n \in SendIds, text \in Texts :
          SendMessage(n, Viewer, "hub", text, MaxStamp)
    \/ \E n \in SendIds : UpdateApply(n)

ClockSpec == Init /\ [][ClockNext]_vars

\* The campus map: routing calls and clearRoute.
MapSpec == Init /\ [][MapNext]_vars

ViewSpec == ResumeSpecInit /\ [][ViewSpecNext]_vars

\* The inboxes of the item pages while both users send from the hub.
BadgeNext ==
    \/ InboxNext
    \/ \E n \in SendIds, u \in Users, stamp \in Stamps :
          SendMessage(n, u, "hub", "hi", stamp)
    \/ \E n \in SendIds : UpdateApply(n)

BadgeSpecInit == KeyInit /\ BadgeInit

BadgeSpec == BadgeSpecInit /\ [][BadgeNext]_vars

\* The chat hub page on a store that holds conversations.
HubSpec == InboxSpecInit /\ [][HubNext]_vars

\* The two submission forms.
SubmitSpec == Init /\ [][SubmitNext]_vars

\* The dashboard's and the mess menu's privileged forms.
AdminSpec == Init /\ [][AdminNext]_vars

\* Sign-up and the profile page.
RoleSpec == Init /\ [][RoleNext]_vars

\* The entry page: sign-up and login.
AuthSpec == Init /\ [][AuthNext]_vars

\* The marketplace page: gallery, sales and chats started from a card.
MarketSpec == Init /\ [][MarketNext]_vars

\* Key derivation alone.
KeySpec == Init /\ [][KeyNext]_vars

(***************************************************************************)
(* Properties                                                              *)
(***************************************************************************)
IsPrefix(s, t) == Len(s) <= Len(t) /\ SubSeq(t, 1, Len(s)) = s

Started(n) == task[n].pc \in {"get", "set", "ack", "done"}

Contextual(op) == op \in {"openChat", "contactReporter"}

SameCall(n, m) ==
    /\ task[n].op = task[m].op
    /\ task[n].me = task[m].me
    /\ task[n].target = task[m].target
    /\ task[n].item = task[m].item

DocsWithId(key) == {d \in chats : d.id = key}

IssuedBy(n, kind) == {o \in storeOps : o.t = n /\ o.kind = kind}

\* The identity tuple of an attempt: the unordered pair for a general DM,
\* (item, initiator, counterpart) for a contextual thread.
TupleOf(n) ==
    IF task[n].op = "initiateChat"
    THEN <<NoItem, {task[n].me, task[n].target}>>
    ELSE <<task[n].item, <<task[n].me, task[n].target>>>>

\* The same, read off a stored record.
DocTuple(d) ==
    IF d.itemId = NoItem
    THEN <<"general", NoItem, {d.participants[1], d.participants[2]}>>
    ELSE <<IF StartsWithLF(d.id) THEN "lf" ELSE "market", d.itemId,
           d.participants>>

\* Keys of each category over all identifiers of IdSet.
GeneralKeys == {GeneralKey(u, v) : u \in IdSet, v \in IdSet}
MarketKeys == {MarketKey(i, u, v) : i \in IdSet, u \in IdSet, v \in IdSet}
LFKeys == {LFKey(i, u, v) : i \in IdSet, u \in IdSet, v \in IdSet}

\* C1: when A has contacted B and B then contacts A, initiateChat builds the
\* same general-DM key in both directions.
C1_SymmetricGeneralKey ==
    kBack # NoDeriv => kBack.key = kFirst.key

\* C1 witness: both directions were derived, for identifiers of different
\* length which the first direction had to swap.
C1_Witness ==
    /\ kBack # NoDeriv
    /\ LexLess(kFirst.target, kFirst.me)
    /\ Len(kFirst.target) # Len(kFirst.me)

C2_SelfState ==
    /\ \A n \in TaskIds :
          Contextual(task[n].op) /\ task[n].target = task[n].me
          => /\ task[n].pc = "rejected"
             /\ task[n].key = None
             /\ IssuedBy(n, "get") = {} /\ IssuedBy(n, "set") = {}
    /\ \A d \in chats :
          d.itemId # NoItem => d.participants[1] # d.participants[2]

C2_SelfStep ==
    \A n \in TaskIds :
        /\ task[n].pc = "idle"
        /\ task'[n].pc # "idle"
        /\ Contextual(task'[n].op)
        /\ task'[n].target = task'[n].me
        => /\ task'[n].pc = "rejected"
           /\ UNCHANGED <<chats, now, active, listener, attached, storeOps,
                          sentLog, creates>>

\* C2: a contextual contact attempt (marketplace openChat, contactReporter)
\* whose counterpart is the signed-in user is rejected at once: it issues no
\* read and no write of chats, creates no record, and leaves the active
\* conversation and its subscription as they were.
C2_SelfContactRejected == []C2_SelfState /\ [][C2_SelfStep]_vars

\* C2 witness: a self contact was rejected on a page that has a
\* conversation open.
C2_Witness ==
    \E n \in TaskIds :
        /\ task[n].pc = "rejected"
        /\ active[task[n].me][PageOf(task[n].op)] # None
        /\ listener[task[n].me][PageOf(task[n].op)] # None

\* C3: no general-DM thread of a user with themselves: the search list never
\* offers the viewer's own profile, so initiateChat is never called with the
\* viewer as target, and no record with two equal participants is read or
\* created.
C3_NoSelfThread ==
    /\ \A u \in Users : u \notin shown[u]
    /\ \A n \in TaskIds :
          task[n].op = "initiateChat" => task[n].me # task[n].target
    /\ \A o \in storeOps : \A u \in Users : o.key # GeneralKey(u, u)
    /\ \A d \in chats : d.participants[1] # d.participants[2]

\* C3 witness: a search matched the viewer's own profile and left it out,
\* and an initiateChat has run to completion on a stored record.
C3_Witness ==
    /\ selfDropped
    /\ \E n \in TaskIds :
          /\ task[n].op = "initiateChat"
          /\ task[n].pc = "done"
          /\ Exists(task[n].key)

\* C4: contact attempts with the same inputs resolve to the same key
\* (LF_i_a_b for contactReporter by a towards b about i), and once both
\* have completed the store holds exactly one record with that key.
C4_IdempotentResumption ==
    /\ \A n \in TaskIds :
          /\ Started(n)
          /\ task[n].op = "contactReporter"
          /\ task[n].item = <<"i">>
          /\ task[n].me = <<"a">>
          /\ task[n].target = <<"b">>
          => task[n].key = <<"L", "F", "_", "i", "_", "a", "_", "b">>
    /\ \A n \in TaskIds, m \in TaskIds :
          Started(n) /\ Started(m) /\ SameCall(n, m)
          => /\ task[n].key = task[m].key
             /\ task[n].pc = "done" /\ task[m].pc = "done"
                => Cardinality(DocsWithId(task[n].key)) = 1

\* C4 witness: a double click on contactReporter whose two attempts both
\* saw the record absent, both wrote it, and both completed.
C4_Witness ==
    \E n \in TaskIds, m \in TaskIds :
        /\ n # m
        /\ SameCall(n, m)
        /\ task[n].op = "contactReporter"
        /\ task[n].pc = "done" /\ task[m].pc = "done"
        /\ IssuedBy(n, "set") # {} /\ IssuedBy(m, "set") # {}

\* C5: messages are append-only: in every step, every stored conversation
\* keeps its messages as a prefix of its messages after the step.
C5_AppendOnly ==
    [][\A d \in chats :
         \E e \in chats' : e.id = d.id /\ IsPrefix(d.messages,
                                                   e.messages)]_vars

\* C6: when chatRef.get() finds the record, the attempt writes nothing: the
\* chats collection and the server clock are unchanged, no write is issued,
\* and the attempt completes by opening the view on that key.
C6_ExistingUntouched ==
    [][\A n \in TaskIds :
         /\ task[n].pc = "get"
         /\ Exists(task[n].key)
         /\ task'[n] # task[n]
         => /\ chats' = chats
            /\ now' = now
            /\ storeOps' = storeOps
            /\ task'[n].pc = "done"
            /\ active'[task[n].me][PageOf(task[n].op)] = task[n].key
            /\ listener'[task[n].me][PageOf(task[n].op)] = task[n].key]_vars

\* C6 witness: an attempt on a conversation of an earlier session, which
\* holds a message, has completed without issuing a write and has it open.
C6_Witness ==
    \E n \in TaskIds :
        /\ task[n].pc = "done"
        /\ IssuedBy(n, "set") = {}
        /\ \E d \in chats :
              d.id = task[n].key /\ d \in PriorChats /\ d.messages # <<>>
        /\ active[task[n].me][PageOf(task[n].op)] = task[n].key

\* C7: a create write that lands on a record which already exists and
\* holds no message leaves it with the same participants and contacts in
\* the same positions, the same item reference and no message.
C7_SecondCreateNoOp ==
    [][\A n \in TaskIds :
         /\ task[n].pc = "set"
         /\ task'[n].pc = "ack"
         /\ Exists(task[n].key)
         /\ DocOf(task[n].key).messages = <<>>
         => \E e \in chats' :
               /\ e.id = task[n].key
               /\ e.messages = <<>>
               /\ e.participants = DocOf(task[n].key).participants
               /\ e.participantEmails = DocOf(task[n].key).participantEmails
               /\ e.itemId = DocOf(task[n].key).itemId]_vars

\* C8: a key built for one category is not a key of another category, for
\* any identifiers.
C8_NoCrossCategoryCollision ==
    /\ kFirst.op = "initiateChat" => kFirst.key \notin MarketKeys \cup LFKeys
    /\ kFirst.op = "openChat" => kFirst.key \notin GeneralKeys \cup LFKeys
    /\ kFirst.op = "contactReporter"
         => kFirst.key \notin GeneralKeys \cup MarketKeys

\* C8 witness: a marketplace key whose item and buyer spell the letters of
\* the lost-and-found prefix.
C8_Witness ==
    /\ kFirst.op = "openChat"
    /\ kFirst.item = <<"L">>
    /\ kFirst.me = <<"F">>

C10_ReadBack ==
    \A d \in chats : creates[d.id] = 1 => d.messages = sentLog[d.id]

\* C11: a message send is one atomic update of one record: the step in which
\* the store applies it appends exactly that message at the tail, changes the
\* last-activity time in the same step, and leaves the earlier messages, the
\* participants, the contacts, the item reference and every other record as
\* they were.
C11_AtomicAppend ==
    [][\A n \in SendIds :
         /\ outbox[n].pc = "update"
         /\ outbox'[n].pc = "done"
         /\ Exists(outbox[n].key)
         => \E e \in chats' :
               /\ e.id = outbox[n].key
               /\ e.messages = Append(DocOf(e.id).messages, outbox[n].msg)
               /\ e.lastUpdated > DocOf(e.id).lastUpdated
               /\ e.participants = DocOf(e.id).participants
               /\ e.participantEmails = DocOf(e.id).participantEmails
               /\ e.itemId = DocOf(e.id).itemId
               /\ chats' \ {e} = chats \ {DocOf(e.id)}]_vars

\* Position of the first occurrence of e in arr (0 when absent).
Pos(arr, e) ==
    IF \E i \in 1..Len(arr) : arr[i] = e
    THEN CHOOSE i \in 1..Len(arr) :
            arr[i] = e /\ \A j \in 1..(i - 1) : arr[j] # e
    ELSE 0

\* C12: appends of one sender are observed in submission order: when a user
\* submitted m1 and later m2 in one conversation, every stored state of the
\* conversation that holds both holds m1 before m2.
C12_SubmissionOrder ==
    \A d \in chats :
        \A i \in 1..Len(submitted[d.id]), j \in 1..Len(submitted[d.id]) :
            LET m1 == submitted[d.id][i]
                m2 == submitted[d.id][j]
            IN  /\ i < j
                /\ m1.senderId = m2.senderId
                /\ m1 # m2
                /\ Pos(d.messages, m1) > 0
                /\ Pos(d.messages, m2) > 0
                => Pos(d.messages, m1) < Pos(d.messages, m2)

\* C13: every inbox view orders the viewer's conversations by last-activity
\* time descending: of two rendered cards, the one whose record had the
\* strictly later time in the rendered snapshot comes first.
C13_InboxOrder ==
    \A u \in Users, p \in Pages :
        \A i \in 1..Len(inbox[u][p]), j \in 1..Len(inbox[u][p]) :
            inbox[u][p][i].seen > inbox[u][p][j].seen => i < j

\* The pages whose inbox shows unread state.
UnreadPages == {"market", "lf"}

UnreadCards(u, p) ==
    {i \in 1..Len(inbox[u][p]) : inbox[u][p][i].unread}

\* C14: in the inbox views a card is marked unread exactly when its
\* conversation has a message and the latest sender is not the viewer, and
\* the count shown is the number of unread cards, empty when that is zero.
C14_UnreadFlagAndCount ==
    \A u \in Users, p \in UnreadPages :
        /\ \A i \in 1..Len(inbox[u][p]) :
              inbox[u][p][i].unread
              <=> /\ inbox[u][p][i].lastSender # None
                  /\ inbox[u][p][i].lastSender # u
        /\ badge[u][p] =
              IF UnreadCards(u, p) = {} THEN <<>>
              ELSE <<"(", Cardinality(UnreadCards(u, p)), ")">>

\* C14 witness: one viewer's inbox shows an unread card, a card whose latest
\* sender is the viewer and a card without messages, under a count; another
\* inbox, rendered after a send of this session, shows no unread card and an
\* empty count.
C14_Witness ==
    /\ \E u \in Users, p \in UnreadPages :
          /\ badge[u][p] # <<>>
          /\ \E i \in 1..Len(inbox[u][p]) : inbox[u][p][i].unread
          /\ \E i \in 1..Len(inbox[u][p]) : inbox[u][p][i].lastSender = u
          /\ \E i \in 1..Len(inbox[u][p]) : inbox[u][p][i].lastSender = None
    /\ \E u \in Users, p \in UnreadPages :
          /\ badge[u][p] = <<>>
          /\ UnreadCards(u, p) = {}
          /\ \E i \in 1..Len(inbox[u][p]) : inbox[u][p][i].seen > 7

\* The category of the operation that creates a record.
CategoryOfOp(op) ==
    CASE op = "initiateChat" -> "general"
      [] op = "openChat" -> "market"
      [] op = "contactReporter" -> "lf"

\* The attempts that wrote the records of the store: those of earlier
\* sessions and those of this one whose create write was applied.
Creators ==
    {PriorGeneral, PriorMarket, PriorLF, PriorEmpty}
    \cup {task[n] : n \in {m \in TaskIds : task[m].pc \in {"ack", "done"}
                                           /\ IssuedBy(m, "set") # {}}}

\* For all identifiers, the record an entry point writes (its key as id, its
\* item as itemId, none for a general DM) is classified as that entry
\* point's category.
ClassifiedAsWritten ==
    /\ \A u \in IdSet, v \in IdSet :
          HubCategory(GeneralKey(u, v), NoItem) = "general"
    /\ \A i \in IdSet, u \in IdSet, v \in IdSet :
          /\ HubCategory(MarketKey(i, u, v), i) = "market"
          /\ HubCategory(LFKey(i, u, v), i) = "lf"

\* C15: the category the hub infers from key shape and item reference is
\* the category of the operation that created the record, for every
\* identifier, and for every stored record in every state, whatever has
\* been appended to it since.
C15_ClassificationStable ==
    /\ ClassifiedAsWritten
    /\ \A d \in chats :
          /\ \E c \in Creators : c.key = d.id
          /\ \A c \in Creators :
                c.key = d.id
                => HubCategory(d.id, d.itemId) = CategoryOfOp(c.op)

\* C15 witness: records of all three categories are stored, and two of
\* different categories have had a message appended in this session.
C15_Witness ==
    /\ \A cat \in {"general", "market", "lf"} :
          \E d \in chats : HubCategory(d.id, d.itemId) = cat
    /\ \E d \in chats, e \in chats :
          /\ HubCategory(d.id, d.itemId) # HubCategory(e.id, e.itemId)
          /\ Len(d.messages) >= 2
          /\ Len(e.messages) >= 2

\* C16: the category label the lost-and-found header inbox shows on a card
\* is the category the chat hub assigns to that conversation.
C16_SameLabelAsHub ==
    \A u \in Users :
        \A i \in 1..Len(inbox[u]["lf"]) :
            \A d \in chats :
                d.id = inbox[u]["lf"][i].id
                => inbox[u]["lf"][i].label = HubCategory(d.id, d.itemId)

\* C17: every page has at most one message subscription attached: none
\* before a conversation is opened, and afterwards exactly one, for the
\* conversation opened most recently on that page.
C17_OneMessageSubscription ==
    \A u \in Users, p \in Pages :
        /\ Len(attached[u][p]) <= 1
        /\ active[u][p] = None => attached[u][p] = <<>>
        /\ active[u][p] # None => attached[u][p] = <<active[u][p]>>

\* C17 witness: on each of two pages a second, different conversation has
\* been opened after a first one.
C17_Witness ==
    /\ opens = MaxOpens
    /\ \E u \in Users, p \in Pages, q \in Pages :
          /\ p # q
          /\ \E n \in TaskIds :
                /\ task[n].pc = "done"
                /\ task[n].me = u
                /\ PageOf(task[n].op) = p
                /\ active[u][p] # None
                /\ active[u][p] # task[n].key
          /\ \E n \in TaskIds :
                /\ task[n].pc = "done"
                /\ task[n].me = u
                /\ PageOf(task[n].op) = q
                /\ active[u][q] # None
                /\ active[u][q] # task[n].key

\* C18: the hub has at most one inbox subscription attached: one from the
\* moment the user is known, and still one after any number of tab switches.
C18_OneInboxSubscription ==
    \A u \in Users :
        /\ inboxSubs[u] <= 1
        /\ authSeen[u] => inboxSubs[u] = 1


\* C19: an entry of the hub's user cache is written only on a miss: once a
\* viewer's cache holds an entry for a user, no step removes or changes it.
C19_CacheEntryStable ==
    [][\A u \in Users, w \in Users :
          userCache[u][w] # None => userCache'[u][w] = userCache[u][w]]_vars


\* C20: a submission whose upload or store write failed has created no item
\* record and has issued each request at most once, and the step that ends
\* a submit handler leaves the button enabled, with the error status when
\* the submission failed.
C20_FailureIsTerminal ==
    /\ [](\A s \in SubmitIds :
            outcome[s] = "failed" =>
                /\ \A it \in items : it.sub # s
                /\ requests[s].uploads <= 1
                /\ requests[s].adds <= 1)
    /\ [][\A p \in FormPages :
            form[p].pc # "idle" /\ form'[p].pc = "idle" =>
                /\ ~btnDisabled'[p]
                /\ outcome'[form[p].sub] = "failed" =>
                       formStatus'[p] = ErrorStatus]_vars

\* A failed upload, a failed store write and a success have all happened,
\* and both buttons are enabled again.
C20_Witness ==
    /\ \E s \in SubmitIds :
          outcome[s] = "failed" /\ requests[s].uploads = 1
          /\ requests[s].adds = 0
    /\ \E s \in SubmitIds : outcome[s] = "failed" /\ requests[s].adds = 1
    /\ \E s \in SubmitIds : outcome[s] = "ok"
    /\ \A p \in FormPages : ~btnDisabled[p] /\ form[p].pc = "idle"


\* The parts of a message line.
Parts(line) == {line[i] : i \in 1..Len(line)}

\* C21: when the store rejects a privileged write with a permission error,
\* the line shown contains the store's own message, one write request was
\* issued for that submit, and no record exists for it.
C21_PermissionErrorVerbatim ==
    \A i \in 1..Len(adminLog) :
        adminLog[i].err.code = "permission-denied" =>
            /\ adminLog[i].err.message \in Parts(adminLog[i].shown)
            /\ adminWrites[adminLog[i].id] = 1
            /\ \A p \in posts : p.id # adminLog[i].id


\* C22: a sign-up with a password shorter than six characters ends with the
\* inline warning and no call; a failed register or authenticate call ends
\* with the inline failure line after exactly one call; neither writes a
\* users record nor schedules the jump to the dashboard.
C22_IdentityErrorsInline ==
    \A s \in AuthActIds :
        /\ authIn[s] # None /\ authIn[s].form = "signup"
           /\ authIn[s].len < MinPassword
           => /\ authEnd[s] # None
              /\ authEnd[s].result = "weak"
              /\ authEnd[s].shown = WeakLine
              /\ authCalls[s] = 0
        /\ authEnd[s] # None /\ authEnd[s].result = "failed"
           => /\ authCalls[s] = 1
              /\ authEnd[s].shown # <<>>
              /\ authEnd[s].shown \notin {RegisteredLine, LoggedInLine}
        /\ authEnd[s] # None /\ authEnd[s].result \in {"weak", "failed"}
           => /\ \A w \in docWrites : w.id # s
              /\ s \notin redirects

\* A short password, a rejected registration and a rejected login have all
\* been submitted and answered.
C22_Witness ==
    /\ \E s \in AuthActIds : authEnd[s] # None /\ authEnd[s].result = "weak"
    /\ \E s \in AuthActIds :
          /\ authEnd[s] # None /\ authEnd[s].result = "failed"
          /\ authIn[s].form = "signup"
    /\ \E s \in AuthActIds :
          /\ authEnd[s] # None /\ authEnd[s].result = "failed"
          /\ authIn[s].form = "login"


\* The key a record's fields call for: the general key of its participants
\* when it has no item reference, the marketplace or the lost-and-found
\* key of its item and its participants in stored order when it has one.
KeyFitsFields(d) ==
    IF d.itemId = NoItem
    THEN d.id = GeneralKey(d.participants[1], d.participants[2])
    ELSE \/ d.id = MarketKey(d.itemId, d.participants[1], d.participants[2])
         \/ d.id = LFKey(d.itemId, d.participants[1], d.participants[2])

\* C23: every stored conversation has two distinct participants, the two
\* contacts of these participants in the same order, and a key that fits
\* its participants and its item reference.
C23_RecordWellFormed ==
    \A d \in chats :
        /\ Len(d.participants) = 2
        /\ d.participants[1] # d.participants[2]
        /\ Len(d.participantEmails) = 2
        /\ \A i \in 1..2 : d.participantEmails[i] = EmailOf(d.participants[i])
        /\ KeyFitsFields(d)
        /\ d.itemId # NoItem <=> HubCategory(d.id, d.itemId) # "general"

\* Records of all three kinds are stored, one of them created in this
\* session by a user who appears second in an earlier record.
C23_Witness ==
    /\ \A cat \in {"general", "market", "lf"} :
          \E d \in chats : HubCategory(d.id, d.itemId) = cat
    /\ \E d \in chats :
          /\ d \notin PriorChats
          /\ d.participants[1] = <<"b">>
          /\ d.itemId # NoItem


\* C24: once an item is sold, no step creates a marketplace conversation
\* that refers to it.
C24_NoChatAfterSold ==
    [][\A i \in Items :
          itemStatus[i] = "sold" =>
              \A d \in chats' :
                  d.itemId = i /\ HubCategory(d.id, d.itemId) = "market"
                  => Exists(d.id)]_vars


\* C25: every users record sign-up writes has role student and a sign-up
\* that succeeded has left one; a record has role admin only if it was
\* seeded with it; and no step changes the role a record has.
C25_RoleNeverRaised ==
    /\ [](/\ \A w \in docWrites : w.role = "student"
          /\ \A s \in AuthActIds :
                authEnd[s] # None /\ authEnd[s].result = "ok"
                /\ authIn[s].form = "signup"
                => userDocs[authIn[s].who] # None
          /\ \A u \in People :
                userDocs[u] # None /\ userDocs[u].role = "admin"
                => SeededDoc(u) # None /\ SeededDoc(u).role = "admin")
    /\ [][\A u \in People :
            userDocs[u] # None /\ userDocs[u].role # "none"
            => /\ userDocs'[u] # None
               /\ userDocs'[u].role = userDocs[u].role]_vars

\* A newcomer has signed up and got a student record, and the admin and the
\* newcomer have both saved their profile since.
C25_Witness ==
    /\ \E w \in docWrites : w.uid \in Newcomers
    /\ \A u \in Newcomers :
          /\ userDocs[u] # None /\ userDocs[u].role = "student"
          /\ profile[u] > 0
    /\ userDocs[<<"b">>].role = "admin"
    /\ profile[<<"b">>] > 0


C27_LastUpdatedIsWriteTime ==
    /\ [](\A k \in AllKeys : Exists(k) => DocOf(k).lastUpdated <= now)
    /\ [][\A k \in AllKeys :
            /\ Exists(k) =>
                  /\ Exists(k)'
                  /\ DocOf(k)'.lastUpdated >= DocOf(k).lastUpdated
            /\ (Exists(k)' /\ (~Exists(k) \/ DocOf(k)' # DocOf(k))) =>
                  /\ now' = now + 1
                  /\ DocOf(k)'.lastUpdated = now'
                  /\ \A j \in AllKeys \ {k} :
                        Exists(j) => DocOf(j)' = DocOf(j)]_vars

\* A record was created, then created again by a racing attempt, and two
\* messages were appended to it after that.
C27_Witness ==
    \E k \in AllKeys :
        /\ Exists(k)
        /\ creates[k] = 2
        /\ Len(DocOf(k).messages) = 2
        /\ DocOf(k).lastUpdated = now


\* The ids of the cards of a rendered conversation list, in order.
CardIds(list) == [i \in 1..Len(list) |-> list[i].id]

\* The ids loadConversations renders for a tab when nothing interleaves:
\* the viewer's conversations, latest first, without those the tab hides.
TabIds(u, tab) ==
    LET docs == ByLastUpdatedDesc(ViewerDocs(u))
        ShownOn(d) == TabShows(tab, HubCategory(d.id, d.itemId))
    IN  CardIds(SelectSeq(docs, ShownOn))

\* No snapshot callback of the given kind is suspended at a lookup.
NonePending(kind) == \A n \in CbIds : cb[n].pc = "await" => cb[n].kind # kind

\* C28: while no inbox callback is suspended, the hub's conversation list
\* is empty (nothing delivered yet) or holds, for one of the tabs, exactly
\* the viewer's conversations of that tab, each once, latest first.
C28_SidebarIsOneTab ==
    NonePending("inbox") =>
        \/ hubList[Viewer] = <<>>
        \/ \E tab \in Tabs : CardIds(hubList[Viewer]) = TabIds(Viewer, tab)

\* What the message pane shows of a bubble, apart from the avatar.
BubbleText(list) ==
    [i \in 1..Len(list) |-> [text |-> list[i].text, isMe |-> list[i].isMe]]

\* The pane openChat renders for a conversation when nothing interleaves.
PaneOf(d, u) ==
    [i \in 1..Len(d.messages) |->
        [text |-> d.messages[i].text, isMe |-> d.messages[i].senderId = u]]

\* C29: while no message-view callback is suspended, the hub's message pane
\* is empty (nothing delivered yet) or holds exactly the messages of one of
\* the viewer's conversations, each once and in stored order.
C29_PaneIsOneConversation ==
    NonePending("view") =>
        \/ hubMessages[Viewer] = <<>>
        \/ \E d \in ViewerDocs(Viewer) :
              BubbleText(hubMessages[Viewer]) = PaneOf(d, Viewer)


\* The route layers and the destination markers that are on the map.
RouteLayersOn == {l \in mapLayers : l[1] = "route"}
MarkersOn == {l \in mapLayers : l[1] = "marker"}

\* C30: at most one route layer and at most one destination marker are on
\* the map in every state, and a step that advances no startRouting call,
\* which on the map page is clearRoute, leaves none of either on the map.
C30_OneRouteOnMap ==
    /\ [](Cardinality(RouteLayersOn) <= 1 /\ Cardinality(MarkersOn) <= 1)
    /\ [][route' = route => mapLayers' = {}]_vars

=============================================================================
